---- MODULE Spec2Model ----
(***************************************************************************)
(* State-machine model of src/script.js, the interaction layer of the      *)
(* Udawalawe Adventure Camping site.  Every browser event handler runs to  *)
(* completion on the single event thread, so each handler is one action;   *)
(* the only suspension points are the two awaits of handleSubmit.          *)
(*                                                                         *)
(* The controllers share no state, so each is explored by a specification  *)
(* of its own over the same variables:                                     *)
(*   Spec          mobile menu, throttled header scroll handler            *)
(*   SpecForm      booking form                                            *)
(*   SpecReveal    scroll reveal observer                                  *)
(*   SpecSections  activity and transition section observers               *)
(*   SpecParallax  parallax and card hover, fine or coarse pointer         *)
(*   SpecStagger   the forEach of initScrollReveal, on any node list       *)
(*   SpecHero      hero entrance, any number of headline lines             *)
(*   SpecReducedMotion  the animators under the reduced-motion preference  *)
(*   SpecStartup   the handlers of a document with one element missing     *)
(* A second submit event may arrive while a request is in flight:          *)
(* handleSubmit does not look at btn.disabled or at any in-flight flag.    *)
(***************************************************************************)
EXTENDS Integers, Sequences, FiniteSets, TLC

VARIABLES
    menu,        \* [toggleActive, panelActive, overflow]: menuToggle / mobileMenu class 'active', body.style.overflow
    btn,         \* [disabled, innerText] of the form's submit button
    status,      \* [innerHTML, success, error] of #form-status (className 'form-status' + markers)
    fieldsFilled,\* TRUE while the form fields hold user input (form.reset() clears them)
    requests,    \* the suspended handleSubmit activations, in submission order
    fin,         \* what the handleSubmit activation that finished last was given
    scrollY,     \* window.scrollY
    headerScrolled, \* header has class 'scrolled'
    thr,         \* closure of throttledHeaderScroll: [inThrottle, timer]; timer = ms until its
                 \* setTimeout callback is due, -1 when none is pending
    burst,       \* bookkeeping of the calls of throttledHeaderScroll since a chosen first call
    reducedMotion, \* matchMedia('(prefers-reduced-motion: reduce)').matches
    inView,      \* per observed target: the isIntersecting value its observer computed last
    entered,     \* per target that was observed at some time: "never", "once" or "again",
                 \* how often it has become intersecting
    reveal,      \* per reveal element: [observed, revealed, applied]
    section,     \* per activity/transition section: [observed, started, style, timers]
    prev,        \* the menu markers as the menu handler that ran last found them
    ev,          \* name of the menu, form or scroll handler that ran last
    touch,       \* matchMedia('(pointer: coarse)').matches
    rect,        \* getBoundingClientRect() of a parallax section: [top, height], in px
    parallax,    \* initParallax's closure and the section's background: [observed,
                 \* listening, ticking, frames, active (dataset.parallaxActive),
                 \* written, translateY (of bg.style.transform), at (rect.top when written)]
    card,        \* an .experience-card: [handlers, transform]
    matched,     \* kinds of the elements of initScrollReveal's revealElements, in document order
    classes,     \* per element that the forEach of lines 242-249 has visited:
                 \* [scrollReveal, stagger], stagger = k for class 'stagger-k', 0 for none
    hero,        \* the hero entrance: [lines, present, frame, timers, style, order]
    missing,     \* the expected element that getElementById did not find, or "none"
    started,     \* the start-up steps of the script that have completed
    errors,      \* uncaught errors raised so far, by start-up and by handlers
    toTop        \* back-to-top control: [visible, inThrottle], the class 'visible' and
                 \* the closure of throttledBackToTop

formVars == <<btn, status, fieldsFilled, requests, fin>>
scrollVars == <<scrollY, headerScrolled, thr, burst>>
obsVars == <<reducedMotion, inView, entered, reveal, section>>
parVars == <<touch, rect, parallax, card>>
docVars == <<matched, classes>>
startVars == <<missing, started, errors, toTop>>
pageVars == <<parVars, docVars, hero, startVars>>
\* what a handler that may raise an error leaves alone outside its own controller
quietVars == <<parVars, docVars, hero, missing, started, toTop>>
coreVars == <<menu, prev, ev, formVars, scrollVars, obsVars>>
notPar == <<coreVars, docVars, hero, startVars>>
notDoc == <<coreVars, parVars, hero, startVars>>
notHero == <<coreVars, parVars, docVars, startVars>>
vars == <<menu, btn, status, fieldsFilled, requests, fin, scrollY, headerScrolled, thr, burst,
          reducedMotion, inView, entered, reveal, section, prev, ev,
          touch, rect, parallax, card, matched, classes, hero,
          missing, started, errors, toTop>>

----------------------------------------------------------------------------
(* Bounds of the model *)

MaxInFlight == 2      \* handleSubmit activations suspended at the same time
MaxErrors == 2        \* length of an `errors` list in a response body
CountCap == 2         \* the counters kept for the claims saturate here
NumReveal == 4        \* elements matched by the scroll-reveal selector
NumActivity == 2      \* .activity-section elements
MaxFrames == 2        \* requestAnimationFrame callbacks waiting for the next frame
MaxMatched == 7       \* elements matched by the scroll-reveal selector, where their order matters
MaxLines == 5         \* .headline-line elements of the hero headline

----------------------------------------------------------------------------
(* START-UP (script.js 15-703) *)

Saturating(n) == IF n < CountCap THEN n + 1 ELSE n

\* lines 21-25 and 647: the elements the script looks up by id and uses
\* without a presence check somewhere
Elements == {"header", "menuToggle", "mobileMenu", "backToTop", "status"}

\* the statements of the IIFE that register something, in source order
StartupSteps ==
    << "headerScroll",       \* 84
       "backToTopScroll",    \* 116
       "backToTopClick",     \* 119-121
       "menuToggleClick",    \* 159
       "navLinkClick",       \* 162-164
       "panelClick",         \* 167-171
       "keydown",            \* 174-178
       "smoothScroll",       \* 211-213
       "scrollReveal",       \* 253
       "parallax",           \* 319
       "hero",               \* 414-418
       "sectionAnimations",  \* initActivityAnimations(), initTransitionAnimation()
       "cardHover",          \* 573
       "bookingForm" >>      \* 697

RECURSIVE IndexOf(_, _)
IndexOf(step, i) == IF StartupSteps[i] = step THEN i ELSE IndexOf(step, i + 1)

\* the step whose statement calls addEventListener on null when m is missing:
\* menuToggle.addEventListener (159), mobileMenu.addEventListener (167)
throwsAt(m) ==
    CASE m = "menuToggle" -> IndexOf("menuToggleClick", 1)
      [] m = "mobileMenu" -> IndexOf("panelClick", 1)
      [] OTHER -> 0

\* the steps completed when the IIFE returns or is left by a TypeError
initialise(m) ==
    IF throwsAt(m) = 0
    THEN {StartupSteps[i] : i \in 1..Len(StartupSteps)}
    ELSE {StartupSteps[i] : i \in 1..(throwsAt(m) - 1)}

ran(step) == step \in started

\* lines 93-102 and 115-116
TopThreshold == 500
TopPositions == {0, 500, 501}

handleBackToTop(y) == y > TopThreshold

\* lines 21-25, 84, 116, 119-121, 159-178: the look-ups and the listeners of
\* a document in which m is missing
InitStart(m) ==
    /\ missing = m
    /\ started = initialise(m)
    /\ errors = IF throwsAt(m) = 0 THEN 0 ELSE 1
    /\ toTop = [visible |-> FALSE, inThrottle |-> FALSE]

\* a scroll event as throttledBackToTop handles it (lines 37-46, 93-102);
\* handleBackToTop throws on a null backToTop before inThrottle is set
BackToTopScroll ==
    \E y \in TopPositions :
        /\ scrollY' = y
        /\ IF toTop.inThrottle
           THEN UNCHANGED <<toTop, errors>>
           ELSE IF missing = "backToTop"
                THEN errors' = Saturating(errors) /\ UNCHANGED toTop
                ELSE /\ toTop' = [visible |-> handleBackToTop(y), inThrottle |-> TRUE]
                     /\ UNCHANGED errors
        /\ UNCHANGED <<headerScrolled, thr, burst, menu, prev, ev, formVars, obsVars>>
        /\ UNCHANGED <<parVars, docVars, hero, missing, started>>

\* line 43: the timer of throttledBackToTop fires
BackToTopTimeout ==
    /\ toTop.inThrottle
    /\ toTop' = [toTop EXCEPT !.inThrottle = FALSE]
    /\ UNCHANGED <<errors, coreVars, parVars, docVars, hero, missing, started>>

----------------------------------------------------------------------------
(* MOBILE MENU (script.js 130-178) *)

ClosedMenu == [toggleActive |-> FALSE, panelActive |-> FALSE, overflow |-> ""]
OpenMenu == [toggleActive |-> TRUE, panelActive |-> TRUE, overflow |-> "hidden"]

openMobileMenu_NoScrollLock(m) ==
    [m EXCEPT !.toggleActive = TRUE, !.panelActive = TRUE]

openMobileMenu(m) ==
    [m EXCEPT !.toggleActive = TRUE, !.panelActive = TRUE, !.overflow = "hidden"]

closeMobileMenu_KeepsScrollLock(m) ==
    [m EXCEPT !.toggleActive = FALSE, !.panelActive = FALSE]

closeMobileMenu(m) ==
    [m EXCEPT !.toggleActive = FALSE, !.panelActive = FALSE, !.overflow = ""]

toggleMobileMenu_AlwaysOpens(m) == openMobileMenu(m)

toggleMobileMenu(m) ==
    IF m.panelActive THEN closeMobileMenu(m) ELSE openMobileMenu(m)

\* the click listener of the panel: e.target is the panel itself (backdrop)
\* or one of its descendants
ClickTargets == {"panel", "content"}

panelClick(m, target) ==
    IF target = "panel" THEN closeMobileMenu(m) ELSE m

Keys == {"Escape", "Enter"}

keydown(m, key) ==
    IF key = "Escape" /\ m.panelActive THEN closeMobileMenu(m) ELSE m

\* toggleMobileMenu throws at 131 on a null mobileMenu
ToggleClick ==
    /\ ran("menuToggleClick")
    /\ prev' = menu
    /\ menu' = IF missing = "mobileMenu" THEN menu ELSE toggleMobileMenu(menu)
    /\ errors' = IF missing = "mobileMenu" THEN Saturating(errors) ELSE errors
    /\ ev' = "toggle"
    /\ UNCHANGED <<formVars, scrollVars, obsVars, quietVars>>

\* closeMobileMenu throws at 154 on a null mobileMenu, after 153
NavLinkClick ==
    /\ ran("navLinkClick")
    /\ prev' = menu
    /\ menu' = IF missing = "mobileMenu"
               THEN [menu EXCEPT !.toggleActive = FALSE]
               ELSE closeMobileMenu(menu)
    /\ errors' = IF missing = "mobileMenu" THEN Saturating(errors) ELSE errors
    /\ ev' = "navlink"
    /\ UNCHANGED <<formVars, scrollVars, obsVars, quietVars>>

PanelClick ==
    \E target \in ClickTargets :
        /\ ran("panelClick")
        /\ prev' = menu
        /\ menu' = panelClick(menu, target)
        /\ ev' = IF target = "panel" THEN "backdrop" ELSE "content"
        /\ UNCHANGED <<formVars, scrollVars, obsVars, pageVars>>

KeyDown ==
    \E key \in Keys :
        /\ ran("keydown")
        /\ prev' = menu
        /\ menu' = keydown(menu, key)
        /\ ev' = IF key = "Escape" THEN "escape" ELSE "key"
        /\ UNCHANGED <<formVars, scrollVars, obsVars, pageVars>>

----------------------------------------------------------------------------
(* BOOKING FORM (script.js 645-695) *)

OriginalLabel == "Send Booking Request"
BusyLabel == "Sending..."
ThanksMessage == "Thanks for your booking request! We'll be in touch shortly."
RetryMessage == "Oops! There was a problem submitting your form. Please try again or contact us via WhatsApp."
ConnectivityMessage == "Oops! There was a problem submitting your form. Please check your internet connection and try again."

Messages == {"Email is required", "Name is required"}
Undefined == "undefined"      \* error.message of an object without that field

RECURSIVE SeqsUpTo(_, _)
SeqsUpTo(S, n) ==
    IF n = 0 THEN {<<>>}
    ELSE LET shorter == SeqsUpTo(S, n - 1)
         IN  shorter \cup {Append(s, x) : s \in {t \in shorter : Len(t) = n - 1}, x \in S}

\* what response.json() can settle with on a non-OK response
Bodies ==
    {[kind |-> "unparsable"],       \* not JSON: json() rejects
     [kind |-> "null"],             \* the JSON value null
     [kind |-> "noErrors"],         \* any other JSON value without own property `errors`
     [kind |-> "errorsNotList"]}    \* an object whose `errors` is not an array
    \cup {[kind |-> "errors", errors |-> e] : e \in SeqsUpTo(Messages \cup {Undefined}, MaxErrors)}

\* Array.prototype.join: undefined elements contribute the empty string
RECURSIVE join(_, _)
join(list, sep) ==
    IF Len(list) = 0 THEN ""
    ELSE LET head == IF list[1] = Undefined THEN "" ELSE list[1]
         IN  IF Len(list) = 1 THEN head ELSE head \o sep \o join(Tail(list), sep)

RemoveAt(s, i) == SubSeq(s, 1, i - 1) \o SubSeq(s, i + 1, Len(s))

NoFin == [originalText |-> "", alone |-> TRUE, fieldsBefore |-> FALSE,
          outcome |-> [kind |-> "none"]]

\* lines 689-690
finally_KeepsBusyLabel(b, originalText) == [b EXCEPT !.disabled = FALSE]

finally(b, originalText) == [disabled |-> FALSE, innerText |-> originalText]

\* lines 673-674
onOk(st) == [st EXCEPT !.innerHTML = ThanksMessage, !.success = TRUE]

\* line 686-687
onCatch(st) == [st EXCEPT !.innerHTML = ConnectivityMessage, !.error = TRUE]

\* lines 677-684: the non-OK branch once response.json() has settled; a
\* rejected json() and a TypeError thrown by Object.hasOwn(null, ..) or by
\* calling .map on a non-array all land in the catch block
onNotOk(st, body) ==
    CASE body.kind = "errors" ->
            [st EXCEPT !.innerHTML = join(body.errors, ", "), !.error = TRUE]
      [] body.kind = "noErrors" ->
            [st EXCEPT !.innerHTML = RetryMessage, !.error = TRUE]
      [] OTHER -> onCatch(st)

\* the user types into the form
EditFields ==
    /\ ~fieldsFilled
    /\ fieldsFilled' = TRUE
    /\ ev' = "edit"
    /\ UNCHANGED <<menu, prev, scrollVars, obsVars, btn, status, requests, fin, pageVars>>

\* lines 651-664: the handler up to its first await
Submit ==
    /\ ran("bookingForm")
    /\ Len(requests) < MaxInFlight
    /\ btn' = [disabled |-> TRUE, innerText |-> BusyLabel]
    /\ IF missing = "status"
       THEN \* line 660 throws on the null status, before the try block
            /\ errors' = Saturating(errors)
            /\ UNCHANGED <<requests, status>>
       ELSE /\ requests' = Append([r \in 1..Len(requests) |->
                                      [requests[r] EXCEPT !.alone = FALSE]],
                                  [originalText |-> btn.innerText,
                                   alone |-> requests = <<>>,
                                   pc |-> "fetch"])
            /\ status' = [innerHTML |-> "", success |-> FALSE, error |-> FALSE]
            /\ UNCHANGED errors
    /\ ev' = "submit"
    /\ UNCHANGED <<menu, prev, scrollVars, obsVars, fieldsFilled, fin, quietVars>>

Finish(i, outcome) ==
    /\ btn' = finally(btn, requests[i].originalText)
    /\ fin' = [originalText |-> requests[i].originalText,
               alone |-> requests[i].alone,
               fieldsBefore |-> fieldsFilled,
               outcome |-> outcome]
    /\ requests' = RemoveAt(requests, i)
    /\ ev' = "finished"
    /\ UNCHANGED <<prev, scrollVars, obsVars, pageVars>>

\* fetch() resolves with an OK response: lines 672-675, then finally
FetchOk ==
    \E i \in 1..Len(requests) :
        /\ requests[i].pc = "fetch"
        /\ status' = onOk(status)
        /\ fieldsFilled' = FALSE
        /\ Finish(i, [kind |-> "ok"])
        /\ UNCHANGED menu

\* fetch() resolves with a non-OK response: the handler awaits response.json()
FetchNotOk ==
    \E i \in 1..Len(requests) :
        /\ requests[i].pc = "fetch"
        /\ requests' = [requests EXCEPT ![i].pc = "json"]
        /\ ev' = "response"
        /\ UNCHANGED <<menu, prev, scrollVars, obsVars, btn, status, fieldsFilled, fin, pageVars>>

\* fetch() rejects (network failure): catch, then finally
FetchReject ==
    \E i \in 1..Len(requests) :
        /\ requests[i].pc = "fetch"
        /\ status' = onCatch(status)
        /\ Finish(i, [kind |-> "reject"])
        /\ UNCHANGED <<menu, fieldsFilled>>

\* response.json() settles: lines 677-684 or the catch, then finally
JsonSettle ==
    \E i \in 1..Len(requests), body \in Bodies :
        /\ requests[i].pc = "json"
        /\ status' = onNotOk(status, body)
        /\ Finish(i, body)
        /\ UNCHANGED <<menu, fieldsFilled>>

----------------------------------------------------------------------------
(* RATE LIMITER AND HEADER SCROLL STATE (script.js 37-46, 71-84) *)

ThrottleLimit == 16           \* throttle(handleHeaderScroll, 16)
HeaderThreshold == 50
ScrollPositions == {0, 50, 51}

Idle == [inThrottle |-> FALSE, timer |-> -1]

\* value of burst.sinceInvoked after two invocations less than ThrottleLimit apart
TooSoon == 0 - 2

\* lines 71-80
handleHeaderScroll(y) == y > HeaderThreshold

\* lines 39-45: TRUE when this call invokes the wrapped function
invokes_Always(t) == TRUE

invokes(t) == ~t.inThrottle

\* lines 42-43: the closure after a call
afterCall_NeverThrottles(t, limit) == t

afterCall(t, limit) ==
    IF invokes(t) THEN [inThrottle |-> TRUE, timer |-> limit] ELSE t


\* a scroll event reaches throttledHeaderScroll; `first` marks the call as the
\* first one of the burst of calls that is being followed
Scroll ==
    \E y \in ScrollPositions, first \in BOOLEAN :
        /\ scrollY' = y
        \* handleHeaderScroll throws on a null header, before line 42 sets inThrottle
        /\ IF invokes(thr) /\ missing = "header"
           THEN /\ errors' = Saturating(errors)
                /\ UNCHANGED <<headerScrolled, thr>>
           ELSE /\ headerScrolled' = IF invokes(thr) THEN handleHeaderScroll(y)
                                     ELSE headerScrolled
                /\ thr' = afterCall(thr, ThrottleLimit)
                /\ UNCHANGED errors
        /\ burst' = LET b == IF first \/ ~burst.followed
                             THEN [burst EXCEPT !.followed = TRUE, !.age = 0,
                                                !.idleAtStart = ~thr.inThrottle,
                                                !.firstInvoked = invokes(thr),
                                                !.invocations = IF invokes(thr) THEN 1 ELSE 0]
                             ELSE [burst EXCEPT !.invocations =
                                                   IF invokes(thr) THEN Saturating(@) ELSE @]
                    IN  IF invokes(thr)
                        THEN [b EXCEPT !.sinceInvoked =
                                          IF @ = -1 \/ @ = ThrottleLimit THEN 0 ELSE TooSoon]
                        ELSE b
        /\ ev' = "scroll"
        /\ UNCHANGED <<menu, prev, formVars, obsVars, quietVars>>

\* one millisecond passes; a timer that is due may still fire late
Tick ==
    /\ burst.followed
    /\ burst.age <= ThrottleLimit \/ thr.timer > 0
    /\ thr' = IF thr.timer > 0 THEN [thr EXCEPT !.timer = @ - 1] ELSE thr
    /\ burst' = [burst EXCEPT
                    !.age = IF @ <= ThrottleLimit THEN @ + 1 ELSE @,
                    !.sinceInvoked = IF @ >= 0 /\ @ < ThrottleLimit THEN @ + 1 ELSE @]
    /\ ev' = "tick"
    /\ UNCHANGED <<scrollY, headerScrolled, menu, prev, formVars, obsVars, pageVars>>

\* line 43: the setTimeout callback
ThrottleTimeout ==
    /\ thr.timer = 0
    /\ thr' = Idle
    /\ ev' = "timeout"
    /\ UNCHANGED <<scrollY, headerScrolled, burst, menu, prev, formVars, obsVars, pageVars>>

----------------------------------------------------------------------------
(* SCROLL REVEAL (script.js 222-250) *)

RevealElements == {<<"reveal", i>> : i \in 1..NumReveal}

\* lines 230-235: one entry of the observer callback
revealEntry_NoUnobserve(r, isIntersecting) ==
    IF isIntersecting
    THEN [r EXCEPT !.revealed = TRUE, !.applied = Saturating(@)]
    ELSE r

revealEntry(r, isIntersecting) ==
    IF isIntersecting
    THEN [observed |-> FALSE, revealed |-> TRUE, applied |-> Saturating(r.applied)]
    ELSE r

Flip(S) == [t \in DOMAIN inView |-> IF t \in S THEN ~inView[t] ELSE inView[t]]

\* entries are counted for the targets the script has observed at some
\* time, which under reduced motion is none
Enter(S) == [t \in DOMAIN entered |->
                IF t \in S /\ ~inView[t] /\ ~reducedMotion
                THEN (IF entered[t] = "never" THEN "once" ELSE "again")
                ELSE entered[t]]

\* the elements of S cross the reveal threshold, each in its own direction;
\* the observer callback gets one entry for each of them it still observes
RevealIntersection ==
    \E S \in SUBSET RevealElements \ {{}} :
        /\ inView' = Flip(S)
        /\ entered' = Enter(S)
        /\ reveal' = [e \in RevealElements |->
                        IF e \in S /\ reveal[e].observed
                        THEN revealEntry(reveal[e], ~inView[e])
                        ELSE reveal[e]]
        /\ UNCHANGED ev
        /\ UNCHANGED <<menu, prev, formVars, scrollVars, reducedMotion, section, pageVars>>

----------------------------------------------------------------------------
(* ACTIVITY AND TRANSITION SECTIONS (script.js 427-544) *)

ActivitySections == {<<"activity", i>> : i \in 1..NumActivity}
TransitionSection == <<"transition", 1>>
Sections == ActivitySections \cup {TransitionSection}

IsActivity(s) == s[1] = "activity"

\* the animated descendants of a section (the document is taken to hold all
\* of them) and the delay of each one's setTimeout
ActivityParts == {"bg", "headline", "caption", "cta"}
TransitionParts == {"headline", "label"}
Parts(s) == IF IsActivity(s) THEN ActivityParts ELSE TransitionParts

ActivityDelay == [bg |-> 50, headline |-> 100, caption |-> 300, cta |-> 400]
TransitionDelay == [headline |-> 100, label |-> 500]
Delay(s) == IF IsActivity(s) THEN ActivityDelay ELSE TransitionDelay

Unset == [opacity |-> "", transform |-> "", transition |-> ""]

\* the inline style a part gets in the observer callback (lines 443-473, 517-527)
hide(s, part, style) ==
    IF IsActivity(s)
    THEN CASE part = "headline" -> [style EXCEPT !.opacity = "0", !.transform = "translateY(60px)"]
           [] part = "caption" -> [style EXCEPT !.opacity = "0", !.transform = "translateX(-30px)"]
           [] part = "cta" -> [style EXCEPT !.opacity = "0", !.transform = "translateX(30px)"]
           [] part = "bg" -> [style EXCEPT !.transform = "scale(1.12)"]
    ELSE CASE part = "headline" -> [style EXCEPT !.opacity = "0", !.transform = "translateY(40px)"]
           [] part = "label" -> [style EXCEPT !.opacity = "0"]

\* the inline style a part gets from its setTimeout callback
show(s, part, style) ==
    IF IsActivity(s)
    THEN CASE part = "headline" ->
                [opacity |-> "1", transform |-> "translateY(0)",
                 transition |-> "opacity 0.8s ease, transform 0.8s ease"]
           [] part = "caption" ->
                [opacity |-> "1", transform |-> "translateX(0)",
                 transition |-> "opacity 0.7s ease, transform 0.7s ease"]
           [] part = "cta" ->
                [opacity |-> "1", transform |-> "translateX(0)",
                 transition |-> "opacity 0.7s ease, transform 0.7s ease"]
           [] part = "bg" ->
                [style EXCEPT !.transform = "scale(1.08)", !.transition = "transform 1.2s ease"]
    ELSE CASE part = "headline" ->
                [opacity |-> "1", transform |-> "translateY(0)",
                 transition |-> "opacity 0.9s ease, transform 0.9s ease"]
           [] part = "label" ->
                [style EXCEPT !.opacity = "1", !.transition = "opacity 0.6s ease"]

\* lines 433-481 and 511-535: one entry of a section observer's callback
sectionEntry_NoUnobserve(s, sec, isIntersecting) ==
    IF isIntersecting
    THEN [sec EXCEPT !.started = Saturating(@),
                     !.style = [p \in Parts(s) |-> hide(s, p, sec.style[p])],
                     !.timers = Parts(s)]
    ELSE sec

sectionEntry(s, sec, isIntersecting) ==
    IF isIntersecting
    THEN [observed |-> FALSE,
          started |-> Saturating(sec.started),
          style |-> [p \in Parts(s) |-> hide(s, p, sec.style[p])],
          timers |-> Parts(s)]
    ELSE sec

\* the sections of S cross the activity observer's threshold
ActivityIntersection ==
    \E S \in SUBSET ActivitySections \ {{}} :
        /\ inView' = Flip(S)
        /\ entered' = Enter(S)
        /\ section' = [s \in Sections |->
                         IF s \in S /\ section[s].observed
                         THEN sectionEntry(s, section[s], ~inView[s])
                         ELSE section[s]]
        /\ UNCHANGED ev
        /\ UNCHANGED <<menu, prev, formVars, scrollVars, reducedMotion, reveal, pageVars>>

\* the transition section crosses the transition observer's threshold
TransitionIntersection ==
    /\ inView' = Flip({TransitionSection})
    /\ entered' = Enter({TransitionSection})
    /\ section' = [section EXCEPT ![TransitionSection] =
                      IF @.observed
                      THEN sectionEntry(TransitionSection, @, ~inView[TransitionSection])
                      ELSE @]
    /\ UNCHANGED ev
    /\ UNCHANGED <<menu, prev, formVars, scrollVars, reducedMotion, reveal, pageVars>>

\* the pending timer of a section that was set with the shortest delay
NextTimer(s) ==
    CHOOSE p \in section[s].timers :
        \A q \in section[s].timers : Delay(s)[p] <= Delay(s)[q]

\* a setTimeout callback of a section's entrance sequence runs
SectionTimeout ==
    \E s \in Sections :
        /\ section[s].timers # {}
        /\ LET p == NextTimer(s)
           IN  section' = [section EXCEPT ![s].style[p] = show(s, p, @),
                                          ![s].timers = @ \ {p}]
        /\ UNCHANGED ev
        /\ UNCHANGED <<menu, prev, formVars, scrollVars, reducedMotion, inView, entered, reveal, pageVars>>

----------------------------------------------------------------------------
(* PARALLAX (script.js 262-316) AND CARD HOVER (script.js 556-570) *)

\* window.innerHeight, in px; lengths in the model are multiples of GridStep
InnerHeight == 400
GridStep == InnerHeight \div 10
Heights == {InnerHeight \div 2, InnerHeight, 2 * InnerHeight}

\* the positions a section of height h can be scrolled to, from two steps
\* above the viewport to two steps below it
Tops(h) == {k * GridStep : k \in (0 - ((h \div GridStep) + 2))..((InnerHeight \div GridStep) + 2)}

\* line 277: rootMargin '10% 0px 10% 0px' widens the viewport by 10% of its
\* height at the top and at the bottom
RootMargin == InnerHeight \div 10

\* lines 267-279: isIntersecting of the parallax observer, threshold 0
isIntersecting(r) ==
    /\ r.top <= InnerHeight + RootMargin
    /\ r.top + r.height >= 0 - RootMargin

\* lines 298-300, doubled to stay in the integers:
\* 2 * (sectionCenter - viewportCenter) = 2 * rect.top + rect.height - innerHeight
centreOffset2(r) == (2 * r.top + r.height) - InnerHeight

\* lines 300-303: translateY = distance * -20 with distance =
\* (sectionCenter - viewportCenter) / innerHeight; exact on the grid
translateY_Following(r) == (centreOffset2(r) * 20) \div (2 * InnerHeight)

translateY(r) == (centreOffset2(r) * (0 - 20)) \div (2 * InnerHeight)

\* lines 263-283, 310-315: what initParallax registers
initParallax_IgnoresReducedMotion(rm, coarse) ==
    [observed |-> ~coarse, listening |-> ~coarse,
     ticking |-> FALSE, frames |-> 0, active |-> FALSE,
     written |-> FALSE, translateY |-> 0, at |-> 0]

initParallax(rm, coarse) ==
    [observed |-> ~(rm \/ coarse), listening |-> ~(rm \/ coarse),
     ticking |-> FALSE, frames |-> 0, active |-> FALSE,
     written |-> FALSE, translateY |-> 0, at |-> 0]

\* line 311: the scroll listener requests a frame only while none is requested
schedules_Always(p) == TRUE

schedules(p) == ~p.ticking

\* lines 310-315: the scroll listener
onParallaxScroll(p) ==
    IF p.listening /\ schedules(p)
    THEN [p EXCEPT !.frames = @ + 1, !.ticking = TRUE]
    ELSE p

\* lines 288-308: updateParallax, for the section at r
updateParallax(p, r) ==
    [p EXCEPT !.written = p.active \/ @,
              !.translateY = IF p.active THEN translateY(r) ELSE @,
              !.at = IF p.active THEN r.top ELSE @,
              !.ticking = FALSE]

\* a scroll event: the section moves in the viewport, the listener runs
ParallaxScroll ==
    \E t \in Tops(rect.height) :
        /\ parallax.frames < MaxFrames
        /\ rect' = [rect EXCEPT !.top = t]
        /\ parallax' = onParallaxScroll(parallax)
        /\ UNCHANGED <<touch, card, notPar>>

\* an animation frame: every requested updateParallax callback runs
Frame ==
    /\ parallax.frames > 0
    /\ parallax' = [updateParallax(parallax, rect) EXCEPT !.frames = 0]
    /\ UNCHANGED <<touch, rect, card, notPar>>

\* lines 267-274: the observer reports that the section has entered or left
\* the widened viewport
ParallaxIntersection ==
    /\ parallax.observed
    /\ parallax.active # isIntersecting(rect)
    /\ parallax' = [parallax EXCEPT !.active = isIntersecting(rect)]
    /\ UNCHANGED <<touch, rect, card, notPar>>

Lifted == "translateY(-8px) scale(1.02)"

\* lines 557-569: what initCardHoverEffects registers on a card
initCardHoverEffects_OnTouch(coarse) == [handlers |-> TRUE, transform |-> ""]

initCardHoverEffects(coarse) == [handlers |-> ~coarse, transform |-> ""]

\* lines 562-564
MouseEnter ==
    /\ card' = IF card.handlers THEN [card EXCEPT !.transform = Lifted] ELSE card
    /\ UNCHANGED <<touch, rect, parallax, notPar>>

\* lines 566-568
MouseLeave ==
    /\ card' = IF card.handlers THEN [card EXCEPT !.transform = ""] ELSE card
    /\ UNCHANGED <<touch, rect, parallax, notPar>>

----------------------------------------------------------------------------
----------------------------------------------------------------------------
(* SCROLL REVEAL START-UP: the classes given by lines 242-249 *)

\* lines 225-227: three of the five kinds the selector matches
Kinds == {"section-header", "experience-card", "review-card"}

\* line 245
isCard(kind) == kind \in {"experience-card", "review-card"}

\* line 246: the number k of the class `stagger-k`, index being forEach's
\* second argument
staggerClass_FromZero(index) == index % 6

staggerClass(index) == (index % 6) + 1

\* lines 243-247: the classes the callback adds to the element at `index`
\* (counted from 0) of the node list m
revealClasses(m, index) ==
    [scrollReveal |-> TRUE,
     stagger |-> IF isCard(m[index + 1]) THEN staggerClass(index) ELSE 0]

\* lines 242-249: one call of the forEach callback, for the next element
RevealForEach ==
    /\ ~reducedMotion
    /\ Len(classes) < Len(matched)
    /\ classes' = Append(classes, revealClasses(matched, Len(classes)))
    /\ UNCHANGED <<matched, notDoc>>

\* the node list of a page with a heading and three cards
DefaultMatched == <<"section-header", "experience-card", "experience-card", "experience-card">>

\* initScrollReveal has returned
InitReveal ==
    /\ matched = DefaultMatched
    /\ classes = IF reducedMotion \/ ~ran("scrollReveal") THEN <<>>
                 ELSE [i \in 1..Len(matched) |-> revealClasses(matched, i - 1)]

\* initScrollReveal is about to run its forEach, on any node list
InitRevealLoop ==
    /\ matched \in SeqsUpTo(Kinds, MaxMatched)
    /\ classes = <<>>

----------------------------------------------------------------------------
(* HERO ENTRANCE (script.js 328-418) *)

\* lines 331-335: the hero elements the function looks up one by one; each
\* may be missing from the document
HeroParts == {"bg", "subheadline", "ctas", "infoBar"}

\* the animated elements of a hero with n headline lines, lines counted from 0
HeroSteps(n, present) ==
    {<<part, 0>> : part \in present} \cup {<<"line", index>> : index \in 0..(n - 1)}

\* lines 371, 380, 389, 398, 407: the delay given to setTimeout
HeroDelay(step) ==
    CASE step[1] = "bg" -> 100
      [] step[1] = "line" -> 300 + (step[2] * 80)
      [] step[1] = "subheadline" -> 600
      [] step[1] = "ctas" -> 750
      [] step[1] = "infoBar" -> 900

\* lines 328-362: animateHeroEntrance up to its requestAnimationFrame call
animateHeroEntrance(rm, n, present) ==
    IF rm
    THEN [lines |-> n, present |-> present, frame |-> FALSE, timers |-> {},
          style |-> [step \in HeroSteps(n, present) |-> ""], order |-> <<>>]
    ELSE [lines |-> n, present |-> present, frame |-> TRUE, timers |-> {},
          style |-> [step \in HeroSteps(n, present) |-> "hidden"], order |-> <<>>]

\* lines 364-410: the animation frame callback sets one timer per element
HeroFrame ==
    /\ hero.frame
    /\ hero' = [hero EXCEPT !.frame = FALSE,
                            !.timers = HeroSteps(hero.lines, hero.present)]
    /\ UNCHANGED notHero

\* timers set in one task run in the order of their delays
HeroNextTimer ==
    CHOOSE step \in hero.timers :
        \A other \in hero.timers : HeroDelay(step) <= HeroDelay(other)

\* lines 366-409: a setTimeout callback reveals its element
HeroTimeout ==
    /\ hero.timers # {}
    /\ LET step == HeroNextTimer
       IN  hero' = [hero EXCEPT !.timers = @ \ {step},
                                !.style[step] = "shown",
                                !.order = Append(@, step)]
    /\ UNCHANGED notHero

\* a hero with two headline lines and all its other elements
InitHero ==
    hero = animateHeroEntrance(reducedMotion \/ ~ran("hero"), 2, HeroParts)

\* any hero
AnyHero ==
    \E n \in 0..MaxLines, present \in SUBSET HeroParts :
        hero = animateHeroEntrance(reducedMotion, n, present)

----------------------------------------------------------------------------
(* THE STATE AFTER THE SCRIPT HAS RUN *)

\* the menu, the form, the header and the observers of lines 222-250, 427-544;
\* a start-up step that did not run has registered what one that returned at
\* its first statement has: nothing
InitCore ==
    /\ menu = ClosedMenu
    /\ btn = [disabled |-> FALSE, innerText |-> OriginalLabel]
    /\ status = [innerHTML |-> "", success |-> FALSE, error |-> FALSE]
    /\ fieldsFilled = FALSE
    /\ requests = <<>>
    /\ fin = NoFin
    /\ prev = ClosedMenu
    /\ scrollY = 0
    /\ headerScrolled = FALSE
    /\ thr = Idle
    \* sinceInvoked: ms since the wrapped function ran last (-1: never, counted up
    \* to ThrottleLimit), TooSoon once it has run less than ThrottleLimit ms
    \* after it had run before
    /\ burst = [followed |-> FALSE, age |-> 0, idleAtStart |-> TRUE,
                firstInvoked |-> FALSE, invocations |-> 0, sinceInvoked |-> -1]
    /\ reducedMotion \in BOOLEAN
    /\ inView = [t \in RevealElements \cup Sections |-> FALSE]
    /\ entered = [t \in RevealElements \cup Sections |-> "never"]
    \* initScrollReveal, initActivityAnimations and initTransitionAnimation
    \* return before observing anything under reduced motion
    /\ reveal = [e \in RevealElements |->
                   [observed |-> ~reducedMotion /\ ran("scrollReveal"),
                    revealed |-> FALSE, applied |-> 0]]
    /\ section = [s \in Sections |->
                    [observed |-> ~reducedMotion /\ ran("sectionAnimations"), started |-> 0,
                     style |-> [p \in Parts(s) |-> Unset], timers |-> {}]]
    /\ ev = "load"

\* initParallax and initCardHoverEffects, for the pointer `coarse`; the page
\* loads scrolled to the top, the section at the top of the page or one
\* viewport further down
InitParallax(coarse) ==
    /\ touch = coarse
    /\ rect \in {[top |-> t, height |-> h] : t \in {0, InnerHeight}, h \in Heights}
    /\ parallax = initParallax(reducedMotion \/ ~ran("parallax"), touch)
    /\ card = initCardHoverEffects(touch \/ ~ran("cardHover"))

\* a section one viewport high at the top of the page
HeroRect == [top |-> 0, height |-> InnerHeight]

\* The specifications of the controllers that read neither the pointer nor
\* the section geometry start on a fine-pointer device.
Init ==
    /\ InitStart("none")
    /\ InitCore
    /\ InitParallax(FALSE)
    /\ rect = HeroRect
    /\ InitReveal
    /\ InitHero

InitPointer ==
    /\ InitStart("none")
    /\ InitCore
    /\ \E coarse \in BOOLEAN : InitParallax(coarse)
    /\ InitReveal
    /\ InitHero

\* start-up of a document with at most one expected element missing
InitStartup ==
    /\ \E m \in Elements \cup {"none"} : InitStart(m)
    /\ InitCore
    /\ InitParallax(FALSE)
    /\ rect = HeroRect
    /\ InitReveal
    /\ InitHero

\* start-up under the reduced-motion preference, on either pointer
InitReducedMotion ==
    /\ InitPointer
    /\ reducedMotion
    /\ rect = HeroRect

InitAnyHero ==
    /\ InitStart("none")
    /\ InitCore
    /\ InitParallax(FALSE)
    /\ rect = HeroRect
    /\ InitReveal
    /\ AnyHero

\* the moment before the forEach of initScrollReveal
InitLoop ==
    /\ InitStart("none")
    /\ InitCore
    /\ InitParallax(FALSE)
    /\ rect = HeroRect
    /\ InitRevealLoop
    /\ InitHero

NextMenu == ToggleClick \/ NavLinkClick \/ PanelClick \/ KeyDown

NextForm == EditFields \/ Submit \/ FetchOk \/ FetchNotOk \/ FetchReject \/ JsonSettle

NextScroll == Scroll \/ Tick \/ ThrottleTimeout

\* navigation and header scrolling
Next == NextMenu \/ NextScroll

Spec == Init /\ [][Next]_vars

\* the booking form
SpecForm == Init /\ [][NextForm]_vars

\* the reveal coordinator
SpecReveal == Init /\ [][RevealIntersection]_vars

NextSections == ActivityIntersection \/ TransitionIntersection \/ SectionTimeout

\* the activity and transition animators
SpecSections == Init /\ [][NextSections]_vars

NextParallax == ParallaxScroll \/ Frame \/ ParallaxIntersection \/ MouseEnter \/ MouseLeave

\* the forEach of initScrollReveal, callback by callback
SpecStagger == InitLoop /\ [][RevealForEach]_vars

\* Under reduced motion the scroll and intersection events below are the
\* only steps of the five animators that can occur: C16_ReducedMotionInert
\* has every callback of theirs disabled.
NextReducedMotion ==
    RevealIntersection \/ ActivityIntersection \/ TransitionIntersection \/ ParallaxScroll

SpecReducedMotion == InitReducedMotion /\ [][NextReducedMotion]_vars

\* the handlers that use the looked-up elements
NextStartup ==
    \/ Scroll \/ BackToTopScroll \/ BackToTopTimeout
    \/ ToggleClick \/ NavLinkClick \/ Submit

SpecStartup == InitStartup /\ [][NextStartup]_vars

\* the hero entrance
SpecHero == InitAnyHero /\ [][HeroFrame \/ HeroTimeout]_vars

\* parallax and card hover, on a fine or a coarse pointer
SpecParallax == InitPointer /\ [][NextParallax]_vars

----------------------------------------------------------------------------
(* NAVIGATION CONTROLLER: claims C1-C3 *)

\* C1: in every reachable state the three menu markers agree: menuToggle has
\* class 'active' iff mobileMenu has class 'active' iff body overflow is
\* 'hidden'.
C1_MenuMarkersAgree ==
    /\ menu.toggleActive <=> menu.panelActive
    /\ menu.panelActive <=> (menu.overflow = "hidden")

\* a toggle click has just opened the closed menu
C1_Witness ==
    /\ ev = "toggle" /\ prev = ClosedMenu
    /\ menu.toggleActive /\ menu.panelActive /\ menu.overflow = "hidden"

\* C2: from the closed state an Escape press and a backdrop click leave the
\* menu state unchanged; from the open state an Escape press, a click whose
\* target is the panel itself and a nav-link click each produce exactly the
\* open-to-closed transition, and nothing but the menu markers changes.
C2_DismissTransitions ==
    [][ /\ (menu = ClosedMenu /\ ev' \in {"escape", "backdrop"})
            => (menu' = menu /\ UNCHANGED <<formVars, scrollVars, obsVars>>)
        /\ (menu = OpenMenu /\ ev' \in {"escape", "backdrop", "navlink"})
            => (menu' = ClosedMenu /\ UNCHANGED <<formVars, scrollVars, obsVars>>) ]_vars

\* a backdrop click has just closed an open menu
C2_Witness ==
    ev = "backdrop" /\ prev = OpenMenu /\ menu = ClosedMenu

\* C3: a toggle click in the closed state opens the menu (both active classes,
\* scroll locked), a toggle click in the open state does the inverse, and the
\* second of two consecutive toggle clicks restores the state before the first.
C3_ToggleInvolution ==
    [][ ev' = "toggle" =>
          /\ menu = ClosedMenu => menu' = OpenMenu
          /\ menu = OpenMenu => menu' = ClosedMenu
          /\ ev = "toggle" => menu' = prev
          /\ UNCHANGED <<formVars, scrollVars, obsVars>> ]_vars

\* a toggle click has just closed a menu that an earlier toggle click opened
C3_Witness ==
    ev = "toggle" /\ prev = OpenMenu /\ menu = ClosedMenu

----------------------------------------------------------------------------
(* FORM SUBMISSION CONTROLLER: claims C4-C7 *)

\* the messages of an `errors` list joined with ", " in list order, built
\* from the left
RECURSIVE MessagesInOrder(_)
MessagesInOrder(list) ==
    IF Len(list) = 0 THEN ""
    ELSE IF Len(list) = 1 THEN list[1]
    ELSE MessagesInOrder(SubSeq(list, 1, Len(list) - 1)) \o ", " \o list[Len(list)]

AllHaveMessage(list) == \A k \in 1..Len(list) : list[k] \in Messages

\* C4: a submission that was never overlapped by another one leaves, however
\* its request ended, the submit button enabled and labelled as it was when
\* the submit event arrived.
C4_ButtonRestored ==
    (ev = "finished" /\ fin.alone)
        => (~btn.disabled /\ btn.innerText = fin.originalText)

\* a lone submission whose non-OK response body could not be parsed
C4_Witness ==
    /\ ev = "finished" /\ fin.alone /\ fin.outcome.kind = "unparsable"
    /\ ~btn.disabled /\ btn.innerText = OriginalLabel

\* C5 as stated: every non-OK response whose body carries no `errors` list,
\* whatever that body is, ends with the generic retry message and the error
\* marker.
C5_NoErrorsListGivesRetry ==
    (ev = "finished" /\ fin.outcome.kind \in {"unparsable", "null", "noErrors", "errorsNotList"})
        => (status.innerHTML = RetryMessage /\ status.error)

\* What the code does guarantee for C5: a body that parses to a JSON value
\* other than null and has no own property `errors` gives the retry message;
\* every other body without an `errors` list gives the connectivity message.
ParsedBodyWithoutErrors ==
    (ev = "finished" /\ fin.outcome.kind = "noErrors")
        => (status.innerHTML = RetryMessage /\ status.error)

UnusableBodyTakenForNetworkFailure ==
    (ev = "finished" /\ fin.outcome.kind \in {"unparsable", "null", "errorsNotList"})
        => (status.innerHTML = ConnectivityMessage /\ status.error)

\* C6 as stated: every non-OK response with an `errors` list of objects that
\* have a message ends with the joined messages as status text, the error
\* marker and not the success marker, the fields untouched and the button
\* enabled.
C6_ErrorsListShown ==
    (ev = "finished" /\ fin.outcome.kind = "errors" /\ AllHaveMessage(fin.outcome.errors))
        => /\ status.innerHTML = MessagesInOrder(fin.outcome.errors)
           /\ status.error /\ ~status.success
           /\ fieldsFilled = fin.fieldsBefore
           /\ ~btn.disabled

\* C6 restricted to a submission that no other submission overlapped
LoneErrorsListShown ==
    fin.alone => C6_ErrorsListShown

\* C7 as stated: every submission answered with an OK status ends with the
\* thank-you message, the success marker and no error marker, the fields
\* cleared and the button enabled with the label it had on submit.
C7_OkShown ==
    (ev = "finished" /\ fin.outcome.kind = "ok")
        => /\ status.innerHTML = ThanksMessage
           /\ status.success /\ ~status.error
           /\ ~fieldsFilled
           /\ ~btn.disabled /\ btn.innerText = fin.originalText

\* C7 restricted to a submission that no other submission overlapped
LoneOkShown ==
    fin.alone => C7_OkShown

----------------------------------------------------------------------------
(* RATE LIMITER: claim C10 *)

\* C10 as stated: for any burst of calls that all fall within a window of
\* length ThrottleLimit, the wrapped handler is invoked exactly once during
\* the burst, by the first call of the burst.  (The window is read strictly:
\* every call comes less than ThrottleLimit after the first one.)
C10_BurstInvokesOnceByFirst ==
    (ev = "scroll" /\ burst.age < ThrottleLimit)
        => (burst.invocations = 1 /\ burst.firstInvoked)

\* C10 amended: for any burst whose first call arrives while no interval is
\* running and whose calls all come less than ThrottleLimit after that first
\* call, the wrapped handler is invoked exactly once during the burst, by the
\* first call.
C10_IdleBurstInvokesOnceByFirst ==
    (ev = "scroll" /\ burst.idleAtStart /\ burst.age < ThrottleLimit)
        => (burst.invocations = 1 /\ burst.firstInvoked)

\* a later call of such a burst has just been dropped, 15 ms after the first
C10_Witness ==
    /\ ev = "scroll" /\ burst.idleAtStart /\ burst.age = ThrottleLimit - 1
    /\ thr.inThrottle /\ thr.timer = 1
    /\ burst.invocations = 1 /\ burst.firstInvoked
    /\ scrollY = 51 /\ ~headerScrolled

----------------------------------------------------------------------------
(* REVEAL COORDINATOR AND SECTIONAL ANIMATORS: claims C8, C9 *)

\* C8: for every element registered with the reveal observer and any
\* sequence of intersection changes, 'revealed' is applied at most once, the
\* element stops being observed at that moment, and afterwards it is never
\* observed again and its 'revealed' class is never taken away.
C8_RevealedOnce ==
    /\ [](\A e \in RevealElements :
            /\ reveal[e].applied <= 1
            /\ reveal[e].revealed <=> (reveal[e].applied = 1)
            /\ reveal[e].revealed => ~reveal[e].observed)
    /\ [][\A e \in RevealElements :
            /\ ~reveal[e].observed => ~reveal'[e].observed
            /\ reveal[e].revealed => reveal'[e].revealed]_vars

\* a revealed element has left the viewport and entered it a second time
C8_Witness ==
    \E e \in RevealElements :
        /\ entered[e] = "again" /\ inView[e]
        /\ reveal[e].revealed /\ reveal[e].applied = 1 /\ ~reveal[e].observed

\* the part carries the opacity and transform the observer callback gives it
IsHidden(s, p, style) ==
    /\ style.opacity = hide(s, p, Unset).opacity
    /\ style.transform = hide(s, p, Unset).transform

\* C9: each activity section and the transition section starts its entrance
\* sequence at most once, on its first intersection, and is unobserved then;
\* however often the section leaves and re-enters afterwards, the sequence
\* is not started again and no part goes back to its hidden initial state.
C9_SectionStartsOnce ==
    /\ [](\A s \in Sections :
            /\ section[s].started <= 1
            /\ section[s].started = 1 => ~section[s].observed
            /\ (~reducedMotion /\ entered[s] # "never") => section[s].started = 1
            /\ entered[s] = "never" => section[s].started = 0)
    /\ [][\A s \in Sections :
            /\ ~section[s].observed => ~section'[s].observed
            /\ \A p \in Parts(s) :
                 (section[s].started = 1 /\ ~IsHidden(s, p, section[s].style[p]))
                    => ~IsHidden(s, p, section'[s].style[p])
            /\ (section[s].started = 1 /\ section'[s].timers # section[s].timers)
                 => section'[s].timers \subseteq section[s].timers]_vars

\* an activity section whose sequence has run to its end has re-entered the
\* viewport, and nothing was started or hidden again
C9_Witness ==
    \E s \in ActivitySections :
        /\ entered[s] = "again" /\ inView[s]
        /\ section[s].started = 1 /\ ~section[s].observed
        /\ section[s].timers = {}
        /\ \A p \in Parts(s) : section[s].style[p] = show(s, p, hide(s, p, Unset))

----------------------------------------------------------------------------
(* RATE LIMITER: claim C11 *)

\* C11: the first call ever invokes the original immediately; any two
\* invocations of the original are at least ThrottleLimit apart; a call
\* dropped while the interval runs is never made up for: the original runs
\* only in the step of a call, never when time passes or the timer fires.
C11_LeadingEdgeThrottle ==
    /\ [](burst.sinceInvoked # TooSoon)
    /\ [][ /\ (~burst.followed /\ ev' = "scroll")
               => /\ burst'.invocations = 1 /\ burst'.firstInvoked
                  /\ headerScrolled' = (scrollY' > HeaderThreshold)
           /\ ev' \in {"tick", "timeout"}
               => /\ headerScrolled' = headerScrolled
                  /\ burst'.invocations = burst.invocations ]_vars

\* a call was dropped and the timer has fired since: the header still shows
\* the position of the invoked call, which was the second invocation since
\* the burst began
C11_Witness ==
    /\ ev = "timeout" /\ thr = Idle
    /\ scrollY = 51 /\ ~headerScrolled
    /\ burst.invocations = 2 /\ burst.sinceInvoked = ThrottleLimit

----------------------------------------------------------------------------
(* PARALLAX: claims C12, C13, C14, C17 *)

\* C12: however many scroll events arrive between two animation frames, at
\* most one updateParallax request is pending, so it runs at most once per
\* frame; pending and `ticking` go together, and a scroll event that finds
\* no request pending (as after a frame callback) schedules one.
C12_OneRequestPerFrame ==
    /\ [](parallax.frames <= 1 /\ (parallax.ticking <=> parallax.frames = 1))
    /\ [][ (parallax.listening /\ parallax.frames = 0 /\ rect' # rect)
              => (parallax'.frames = 1 /\ parallax'.ticking) ]_vars

\* a frame callback has run and written a transform, the section has been
\* scrolled since and one new request is pending
C12_Witness ==
    /\ parallax.written /\ parallax.at # rect.top
    /\ parallax.ticking /\ parallax.frames = 1

Abs(n) == IF n < 0 THEN 0 - n ELSE n

\* C13: a transform written for a section that is marked active and does
\* intersect the widened viewport moves the background by at most 20px
C13_AtMost20px ==
    (parallax.written /\ isIntersecting([rect EXCEPT !.top = parallax.at]))
        => Abs(parallax.translateY) <= 20

\* C14: for the fixed viewport height, of two transforms written one after
\* the other the one for the larger (section centre - viewport centre) has
\* the smaller translateY, and translateY is 0 where the centres coincide
C14_MonotoneDecreasing ==
    /\ []((parallax.written /\ centreOffset2([rect EXCEPT !.top = parallax.at]) = 0)
            => parallax.translateY = 0)
    /\ [][ (parallax.written /\ parallax'.written)
              => /\ parallax'.at > parallax.at => parallax'.translateY < parallax.translateY
                 /\ parallax'.at = parallax.at => parallax'.translateY = parallax.translateY ]_vars

\* a frame has written the transform of an active section whose centre is
\* at the centre of the viewport
C14_Witness ==
    /\ parallax.written /\ centreOffset2([rect EXCEPT !.top = parallax.at]) = 0
    /\ rect.top = parallax.at /\ ~parallax.ticking /\ parallax.active

\* C17: on a coarse pointer initParallax registers no observer and no scroll
\* listener and the background's transform is never written, and
\* initCardHoverEffects registers no mouse handlers, the card's transform
\* stays as it was
C17_CoarsePointerInert ==
    touch => /\ ~parallax.observed /\ ~parallax.listening
             /\ parallax.frames = 0 /\ ~parallax.active /\ ~parallax.written
             /\ ~card.handlers /\ card.transform = ""

\* coarse pointer, full motion: the section has been scrolled out of sight
C17_Witness ==
    touch /\ ~reducedMotion /\ ~isIntersecting(rect) /\ card.transform = ""

----------------------------------------------------------------------------
(* STAGGER CLASSES: claim C15 *)

RECURSIVE CardsBefore(_, _)
\* the number of cards among the first n elements of the node list m
CardsBefore(m, n) ==
    IF n = 0 THEN 0
    ELSE CardsBefore(m, n - 1) + (IF isCard(m[n]) THEN 1 ELSE 0)

\* C15 as stated: the Nth card, counted from 0 among the cards only,
\* receives stagger index N mod 6
C15_NthCardGetsNMod6 ==
    \A i \in 1..Len(classes) :
        isCard(matched[i]) => classes[i].stagger = CardsBefore(matched, i - 1) % 6

\* C15 as the code has it: a card at position N, counted from 0 among all
\* the matched elements, receives the class stagger-((N mod 6) + 1), and an
\* element that is no card receives no stagger class
C15_StaggerByPosition ==
    \A i \in 1..Len(classes) :
        /\ classes[i].scrollReveal
        /\ classes[i].stagger = IF isCard(matched[i]) THEN ((i - 1) % 6) + 1 ELSE 0

\* the seventh matched element is a card after a heading and has received
\* stagger-1, the sixth a card with stagger-6
C15_Witness ==
    /\ Len(classes) = 7 /\ ~isCard(matched[1])
    /\ isCard(matched[6]) /\ classes[6].stagger = 6
    /\ isCard(matched[7]) /\ classes[7].stagger = 1

----------------------------------------------------------------------------
(* HERO ENTRANCE: claim C19 *)

\* place of a step in the listed order
HeroRank(step) ==
    CASE step[1] = "bg" -> 0
      [] step[1] = "line" -> 1
      [] step[1] = "subheadline" -> 2
      [] step[1] = "ctas" -> 3
      [] step[1] = "infoBar" -> 4

\* C19: the steps take effect in the listed order, the background, then the
\* headline lines in index order, then the subheadline, the CTAs and the
\* info bar; no headline line is revealed after the subheadline
C19_HeroStepsInOrder ==
    \A i, j \in 1..Len(hero.order) :
        i < j => /\ HeroRank(hero.order[i]) <= HeroRank(hero.order[j])
                 /\ (hero.order[i][1] = "line" /\ hero.order[j][1] = "line")
                        => hero.order[i][2] < hero.order[j][2]

\* with at most four headline lines the order is kept
C19_FourLinesInOrder ==
    hero.lines <= 4 => C19_HeroStepsInOrder

----------------------------------------------------------------------------
(* REDUCED MOTION: claim C16 *)

\* C16: under the reduced-motion preference none of the reveal, parallax,
\* hero, activity and transition animators has an observer, a scroll
\* listener, a frame request or a timer, none of their callbacks can run,
\* and no class, transform or opacity of theirs has been written
C16_ReducedMotionInert ==
    reducedMotion =>
        /\ \A e \in RevealElements :
              ~reveal[e].observed /\ ~reveal[e].revealed /\ reveal[e].applied = 0
        /\ classes = <<>>
        /\ \A s \in Sections :
              /\ ~section[s].observed /\ section[s].started = 0 /\ section[s].timers = {}
              /\ \A p \in Parts(s) : section[s].style[p] = Unset
        /\ ~parallax.observed /\ ~parallax.listening /\ ~parallax.ticking
        /\ parallax.frames = 0 /\ ~parallax.active /\ ~parallax.written
        /\ ~hero.frame /\ hero.timers = {} /\ hero.order = <<>>
        /\ \A step \in DOMAIN hero.style : hero.style[step] = ""
        /\ ~ENABLED (RevealForEach \/ SectionTimeout \/ Frame \/ ParallaxIntersection
                        \/ HeroFrame \/ HeroTimeout)

\* reduced motion: every reveal element and every section has come into
\* view and the parallax section has been scrolled up
C16_Witness ==
    /\ reducedMotion
    /\ \A t \in RevealElements \cup Sections : inView[t]
    /\ rect.top < 0 /\ isIntersecting(rect)

----------------------------------------------------------------------------
(* OVERLAPPING SUBMISSIONS: claim C20 *)

\* C20: once every request has resolved after a submission that was handled
\* while another was in flight, the button is enabled and shows the label
\* it had before the first submission, not the busy label
C20_LabelRestoredAfterOverlap ==
    (requests = <<>> /\ ev = "finished" /\ ~fin.alone)
        => (~btn.disabled /\ btn.innerText = OriginalLabel)

\* what does hold: the button is enabled again
C20_EnabledAfterOverlap ==
    (requests = <<>> /\ ev = "finished" /\ ~fin.alone) => ~btn.disabled

----------------------------------------------------------------------------
(* MISSING ELEMENTS: claim C18 *)

\* C18: whichever one expected element is missing, neither start-up nor a
\* later handler raises an error, and every start-up step has completed,
\* so the features whose elements are present are initialised
C18_MissingElementSilent ==
    /\ errors = 0
    /\ \A i \in 1..Len(StartupSteps) : ran(StartupSteps[i])

\* with every element present start-up completes and no handler raises
C18_AllPresentSilent ==
    missing = "none" => C18_MissingElementSilent

----------------------------------------------------------------------------
(* BOOKING FORM WHILE A REQUEST IS IN FLIGHT: claims C21, C22 *)

\* C21: whenever at least one booking request is in flight the submit
\* button is disabled and shows the busy label
C21_BusyWhileInFlight ==
    requests # <<>> => (btn.disabled /\ btn.innerText = BusyLabel)

\* what does hold: a request that is the only one in flight since it was
\* submitted has the button disabled and busy
C21_BusyWhileAloneInFlight ==
    (Len(requests) = 1 /\ requests[1].alone)
        => (btn.disabled /\ btn.innerText = BusyLabel)

\* C22: the status container never carries the marker 'success' and the
\* marker 'error' at the same time
C22_OneOutcomeMarker ==
    ~(status.success /\ status.error)

\* what does hold: after a submission that never overlapped another the
\* status carries exactly one marker
C22_OneMarkerAfterLoneRequest ==
    (ev = "finished" /\ fin.alone) => (status.success # status.error)

----------------------------------------------------------------------------
(* HEADER AFTER SCROLLING HAS STOPPED: claim C23 *)

\* C23: when no throttle timer is pending (the interval of the last invoked
\* call has run out and no scroll event has come since), the header has the
\* class 'scrolled' exactly when window.scrollY is greater than 50
C23_HeaderMatchesFinalPosition ==
    thr = Idle => (headerScrolled <=> scrollY > HeaderThreshold)

\* what does hold: a scroll event that arrives while no interval is running
\* leaves the header matching its position
C23_HeaderMatchesInvokedCall ==
    [][ (ev' = "scroll" /\ ~thr.inThrottle)
           => (headerScrolled' <=> scrollY' > HeaderThreshold) ]_vars

====
